---------------------------- MODULE Spec2Model ----------------------------
(***************************************************************************)
(* A model of neovide's CachingShaper (src/renderer/caching_shaper.rs):    *)
(* the LRU font cache, the LRU cache of shaped text, the segmentation of a *)
(* glyph layout into same-font runs, and the estimate of the monospace     *)
(* cell width from the advances of a reference string.                     *)
(*                                                                         *)
(* The font source (font_kit), the layout engine (skribo) and the drawing  *)
(* backend (skia) are external: the font source is a table of what each    *)
(* family lookup answers, and what the layout engine returns is an input   *)
(* of the calls.                                                           *)
(***************************************************************************)
EXTENDS Integers, Sequences, FiniteSets, TLC

VARIABLES
    font_cache,   \* CachingShaper.font_cache, least recently used first
    blob_cache,   \* CachingShaper.blob_cache, least recently used first
    source,       \* the host's fonts: family name -> what a lookup answers
    engine,       \* the layout engine: a stub, or the glyphs it answers
    panicked,     \* TRUE once a call has panicked: the thread unwinds
    call          \* the last call of a public method, and what it did

vars == <<font_cache, blob_cache, source, engine, panicked, call>>

---------------------------------------------------------------------------
(* Bounds of the model.                                                    *)

\* The longest glyph sequence the layout engine returns in SpecShape.
MaxGlyphs == 6
\* The most advances (glyphs - 1) of the reference string in SpecDims.
MaxAdvances == 6

---------------------------------------------------------------------------
(* f32 and its text form.  A value is sign and magnitude, the magnitude in *)
(* quarters (q = 4 * |x|), so that -0.0 and +0.0 are two values, as in     *)
(* IEEE 754.  A string is a sequence of characters.                        *)

F32(neg, q) == [neg |-> neg, q |-> q]

F32FromInt(i) == IF i < 0 THEN F32(TRUE, -i) ELSE F32(FALSE, i)

F32ToInt(x) == IF x.neg THEN -x.q ELSE x.q

\* pair[1] - pair[0]: exact on this grid; a zero difference is +0.0 unless
\* the operands are -0.0 and +0.0 (round to nearest).
F32Sub(a, b) ==
    IF a.q = 0 /\ b.q = 0
    THEN F32(a.neg /\ ~b.neg, 0)
    ELSE F32FromInt(F32ToInt(a) - F32ToInt(b))

\* base_size * scale as f32
F32MulInt(a, n) == F32(a.neg, a.q * n)

Digits == <<"0", "1", "2", "3", "4", "5", "6", "7", "8", "9">>

RECURSIVE NatToString(_)
NatToString(n) ==
    IF n < 10 THEN <<Digits[n + 1]>>
    ELSE NatToString(n \div 10) \o <<Digits[(n % 10) + 1]>>

\* f32::to_string: the shortest decimal text that reads back as the value,
\* no fraction for a whole number, a sign for a negative value.
F32ToString(x) ==
    (IF x.neg THEN <<"-">> ELSE <<>>)
        \o NatToString(x.q \div 4)
        \o (CASE x.q % 4 = 0 -> <<>>
              [] x.q % 4 = 1 -> <<".", "2", "5">>
              [] x.q % 4 = 2 -> <<".", "5">>
              [] x.q % 4 = 3 -> <<".", "7", "5">>)

DigitValue(c) == CHOOSE d \in 0..9 : Digits[d + 1] = c

RECURSIVE DigitsToNat(_)
DigitsToNat(s) ==
    IF s = <<>> THEN 0
    ELSE 10 * DigitsToNat(SubSeq(s, 1, Len(s) - 1)) + DigitValue(s[Len(s)])

RECURSIVE Pow10(_)
Pow10(n) == IF n = 0 THEN 1 ELSE 10 * Pow10(n - 1)

\* str::parse::<f32>: sign, whole part, "." and fraction.
F32Parse(s) ==
    LET neg  == s # <<>> /\ s[1] = "-"
        body == IF neg THEN Tail(s) ELSE s
        dots == {i \in 1..Len(body) : body[i] = "."}
        dot  == IF dots = {} THEN Len(body) + 1 ELSE CHOOSE i \in dots : TRUE
        whole == SubSeq(body, 1, dot - 1)
        frac  == SubSeq(body, dot + 1, Len(body))
    IN  F32(neg, 4 * DigitsToNat(whole)
                   + (4 * DigitsToNat(frac)) \div Pow10(Len(frac)))

---------------------------------------------------------------------------
(* The cache keys.                                                         *)

\* FontKey::new(font_name.to_string(), base_size.to_string(), scale, bold,
\* italic): the size is kept as its text.
FontKey(name, base_size, scale, bold, italic) ==
    [name |-> name, base_size |-> F32ToString(base_size), scale |-> scale,
     bold |-> bold, italic |-> italic]

\* ShapeKey::new(text.to_string(), font_key)
ShapeKey(text, font_key) == [text |-> text, font_key |-> font_key]

---------------------------------------------------------------------------
(* lru::LruCache.  A cache is the sequence of its entries, the least       *)
(* recently used first.  An entry of n = 1 holds one key the calls of the  *)
(* model name; an entry with fill = TRUE stands for n entries under keys   *)
(* no call of the model names again (text drawn and fonts used earlier in  *)
(* the session), which lie together in the recency order.                  *)

\* Option<T>: None is <<>>, Some(x) is <<x>>.
None == <<>>

Some(x) == <<x>>

Entry(k, v) == [fill |-> FALSE, key |-> k, val |-> v, n |-> 1]

Others(n) == [fill |-> TRUE, key |-> <<>>, val |-> <<>>, n |-> n]

RECURSIVE LruLen(_)
LruLen(c) == IF c = <<>> THEN 0 ELSE Head(c).n + LruLen(Tail(c))

Holds(it, k) == ~it.fill /\ it.key = k

LruContains(c, k) == \E i \in 1..Len(c) : Holds(c[i], k)

LruKeys(c) == {c[i].key : i \in {j \in 1..Len(c) : ~c[j].fill}}

\* LruCache::peek: Some(value) of a key that is held, or None.
LruPeek(c, k) ==
    IF LruContains(c, k)
    THEN Some(c[CHOOSE i \in 1..Len(c) : Holds(c[i], k)].val)
    ELSE None

LruWithout(c, k) == SelectSeq(c, LAMBDA it : ~Holds(it, k))

\* A faulty LruPopLru: the entry at the most recently used end is dropped.
LruPopMru(c) ==
    IF c[Len(c)].n > 1
    THEN SubSeq(c, 1, Len(c) - 1) \o <<[c[Len(c)] EXCEPT !.n = @ - 1]>>
    ELSE SubSeq(c, 1, Len(c) - 1)

\* The entry at the least recently used end is dropped.
LruPopLru(c) ==
    IF Head(c).n > 1 THEN <<[Head(c) EXCEPT !.n = @ - 1]>> \o Tail(c)
    ELSE Tail(c)

\* A faulty LruPut: a new key goes into a full cache and nothing is dropped.
LruPutGrows(c, k, v, cap) == Append(LruWithout(c, k), Entry(k, v))

\* LruCache::put: a key already held is given the value and made the most
\* recently used; a new key goes in as the most recently used, after the
\* least recently used entry is dropped when the cache is full.
LruPut(c, k, v, cap) ==
    IF LruContains(c, k) THEN Append(LruWithout(c, k), Entry(k, v))
    ELSE Append(IF LruLen(c) >= cap THEN LruPopLru(c) ELSE c, Entry(k, v))

\* A faulty LruGet: the entry is taken out of the cache (LruCache::pop).
LruGetPops(c, k) == LruWithout(c, k)

\* A faulty LruGet: the recency order is left as it is (LruCache::peek).
LruGetKeepsOrder(c, k) == c

\* The cache after LruCache::get: a key that is held becomes the most
\* recently used (the call returns what LruPeek returns).
LruGet(c, k) ==
    IF LruContains(c, k)
    THEN Append(LruWithout(c, k), Entry(k, LruPeek(c, k)[1]))
    ELSE c

---------------------------------------------------------------------------
(* CachingShaper::new                                                      *)

FontCacheCapacity == 100

BlobCacheCapacity == 10000

---------------------------------------------------------------------------
(* CachingShaper::get_font                                                 *)

EmojiFamily == "Segoe UI Emoji"

\* source.select_family_by_name(name).expect(msg).fonts()[0].load().unwrap():
\* the font, or a panic when the family is not found or its font not loaded.
LoadFamily(src, name) == src[name] = "ok"

\* A faulty FontCollection: the requested family is added first.
FontCollectionSwapped(font_key) == <<font_key.name, EmojiFamily>>

\* collection.add_family(emoji font) and then collection.add_family(font):
\* the families of the collection, in the order they were added.
FontCollection(font_key) == <<EmojiFamily, font_key.name>>

\* A faulty GetFont: the families are looked up and loaded, and the
\* collection built and stored, also when the key is in the cache.
GetFontReloads(fc, src, font_key) ==
    LET hit == LruContains(fc, font_key)
        emoji_font == LoadFamily(src, EmojiFamily)
        font == LoadFamily(src, font_key.name)
        put == LruPut(fc, font_key, <<EmojiFamily, font_key.name, "reloaded">>,
                      FontCacheCapacity)
        got == LruPeek(put, font_key)
    IN  IF ~emoji_font \/ ~font
        THEN [font_cache |-> fc, panic |-> TRUE, ret |-> <<>>,
              lookups |-> <<EmojiFamily>>, hit |-> hit]
        ELSE [font_cache |-> LruGet(put, font_key), panic |-> FALSE,
              ret |-> got[1], lookups |-> <<EmojiFamily, font_key.name>>,
              hit |-> hit]

\* The result of get_font on font cache fc: the cache afterwards, whether the
\* call panicked, the collection returned, the families looked up on the
\* font source, and whether the key was in the cache.
GetFont(fc, src, font_key) ==
    LET hit == LruContains(fc, font_key)
        emoji_font == LoadFamily(src, EmojiFamily)
        font == LoadFamily(src, font_key.name)
        collection == FontCollection(font_key)
        put == IF hit THEN fc
               ELSE LruPut(fc, font_key, collection, FontCacheCapacity)
        got == LruPeek(put, font_key)
    IN  IF ~hit /\ ~emoji_font
        THEN [font_cache |-> fc, panic |-> TRUE, ret |-> <<>>,
              lookups |-> <<EmojiFamily>>, hit |-> FALSE]
        ELSE IF ~hit /\ ~font
        THEN [font_cache |-> fc, panic |-> TRUE, ret |-> <<>>,
              lookups |-> <<EmojiFamily, font_key.name>>, hit |-> FALSE]
        ELSE [font_cache |-> LruGet(put, font_key), panic |-> got = None,
              ret |-> IF got = None THEN <<>> ELSE got[1],
              lookups |-> IF hit THEN <<>>
                          ELSE <<EmojiFamily, font_key.name>>,
              hit |-> hit]

---------------------------------------------------------------------------
(* The layout engine (skribo).  In Spec it is a stub that answers one      *)
(* glyph for each character; in SpecShape and SpecDims it answers the      *)
(* glyph sequence drawn in the initial state.                              *)

\* A skribo Glyph: the glyph id, the full name of the font it resolved to,
\* and its horizontal offset.
Glyph(glyph_id, font, offset) ==
    [glyph_id |-> glyph_id, font |-> font, offset |-> offset]

Stub == [stub |-> TRUE, glyphs |-> <<>>]

Answering(glyphs) == [stub |-> FALSE, glyphs |-> glyphs]

EmojiChar == "U+1F600"

\* TextStyle { size: base_size * scale as f32 }
TextStyle(base_size, scale) == [size |-> F32MulInt(base_size, scale)]

\* layout(&style, &font_collection, text): the stub resolves an emoji to the
\* first family of the collection and any other character to the second, and
\* sets the glyphs one size apart.
Layout(eng, style, collection, text) ==
    IF ~eng.stub THEN eng.glyphs
    ELSE [i \in 1..Len(text) |->
            Glyph(i,
                  IF text[i] = EmojiChar THEN collection[1] ELSE collection[2],
                  F32(style.size.neg, (i - 1) * style.size.q))]

\* layout_run(&style, font_ref, standard_character_string): the stub sets
\* the glyphs half a size apart, all of the requested family of what
\* get_font returned.
LayoutRun(eng, style, font_ref, text) ==
    IF ~eng.stub THEN eng.glyphs
    ELSE [i \in 1..Len(text) |->
            Glyph(i, font_ref[2],
                  F32(style.size.neg, (i - 1) * (style.size.q \div 2)))]

\* The 62 characters of standard_character_string.
standard_character_string ==
    <<"a", "b", "c", "d", "e", "f", "g", "h", "i", "j", "k", "l", "m",
      "n", "o", "p", "q", "r", "s", "t", "u", "v", "w", "x", "y", "z",
      "A", "B", "C", "D", "E", "F", "G", "H", "I", "J", "K", "L", "M",
      "N", "O", "P", "Q", "R", "S", "T", "U", "V", "W", "X", "Y", "Z",
      "1", "2", "3", "4", "5", "6", "7", "8", "9", "0">>

---------------------------------------------------------------------------
(* The record of a call.                                                   *)

NoCall ==
    [op |-> "new", text |-> <<>>, font_key |-> <<>>, panic |-> FALSE,
     ret |-> <<>>, shape_calls |-> 0, layout_calls |-> 0,
     blob_calls |-> <<>>, lookups |-> <<>>, font_hit |-> "none",
     blob_hit |-> "none", glyphs |-> <<>>, follows |-> "first",
     dropped |-> {}, collection |-> <<>>]

\* How a call follows the call before it: "same" for the method and the
\* arguments of that call, "cleared" for a shape_cached of a key that a
\* clear() just before it dropped from the cache.
Follows(before, op, text, font_key) ==
    IF before.op = op /\ before.text = text /\ before.font_key = font_key
    THEN "same"
    ELSE IF before.op = "clear" /\ op = "shape_cached"
            /\ ShapeKey(text, font_key) \in before.dropped
    THEN "cleared"
    ELSE "other"

HitOrMiss(b) == IF b THEN "hit" ELSE "miss"

---------------------------------------------------------------------------
(* CachingShaper::make_blob and CachingShaper::shape                       *)

\* font.metrics() of the font-source: the emoji font fills its em square,
\* a text font has its ascent at three quarters of it.
FontMetrics(font) ==
    IF font = EmojiFamily THEN [ascent |-> 2048, units_per_em |-> 2048]
    ELSE [ascent |-> 1536, units_per_em |-> 2048]

\* make_blob reads glyphs[0]: it panics on a run without glyphs.
MakeBlobPanics(glyphs) == Len(glyphs) = 0

\* make_blob on a run with glyphs: the ids and the horizontal positions of
\* its glyphs, and ascent = metrics.ascent * base_size / units_per_em.
MakeBlob(glyphs, base_size) ==
    LET metrics == FontMetrics(glyphs[1].font)
    IN  [glyph_ids |-> [i \in 1..Len(glyphs) |-> glyphs[i].glyph_id],
         positions |-> [i \in 1..Len(glyphs) |-> glyphs[i].offset],
         ascent |-> F32(base_size.neg,
                        (metrics.ascent * base_size.q) \div metrics.units_per_em)]

\* The locals of shape before its loop; blob_calls lists the runs handed to
\* make_blob and panic tells whether one of these calls panicked.
ShapeStart ==
    [blobs |-> <<>>, current_run |-> <<>>, current_font |-> None,
     blob_calls |-> <<>>, panic |-> FALSE]

\* blobs.push((current_font.unwrap(), make_blob(current_run, base_size)))
PushRun(st, base_size) ==
    IF MakeBlobPanics(st.current_run)
    THEN [st EXCEPT !.blob_calls = Append(@, st.current_run), !.panic = TRUE]
    ELSE [st EXCEPT
            !.blobs = Append(@, <<st.current_font[1],
                                  MakeBlob(st.current_run, base_size)>>),
            !.blob_calls = Append(@, st.current_run)]

\* A faulty ShapeStep: a change of font does not close the current run.
ShapeStepNoSplit(st, glyph, base_size) ==
    [st EXCEPT !.current_font = Some(glyph.font),
               !.current_run = Append(@, glyph)]

\* A faulty ShapeStep: the run is closed before the first glyph as well,
\* when no font is current yet.
ShapeStepClosesFirst(st, glyph, base_size) ==
    LET closed ==
            IF st.current_font = None \/ glyph.font # st.current_font[1]
            THEN [PushRun(st, base_size) EXCEPT !.current_run = <<>>]
            ELSE st
    IN  [closed EXCEPT !.current_font = Some(glyph.font),
                       !.current_run = Append(@, glyph)]

\* One turn of the loop over layout.glyphs.
ShapeStep(st, glyph, base_size) ==
    LET closed ==
            IF st.current_font # None /\ glyph.font # st.current_font[1]
            THEN [PushRun(st, base_size) EXCEPT !.current_run = <<>>]
            ELSE st
    IN  [closed EXCEPT !.current_font = Some(glyph.font),
                       !.current_run = Append(@, glyph)]

RECURSIVE ShapeLoop(_, _, _)
ShapeLoop(st, glyphs, base_size) ==
    IF glyphs = <<>> \/ st.panic THEN st
    ELSE ShapeLoop(ShapeStep(st, Head(glyphs), base_size), Tail(glyphs), base_size)

\* A faulty ShapeRuns: the run open at the end of the input is not closed.
ShapeRunsNoLast(glyphs, base_size) == ShapeLoop(ShapeStart, glyphs, base_size)

\* A faulty ShapeRuns: the last run is closed without the test of its
\* length.
ShapeRunsPushAlways(glyphs, base_size) ==
    LET st == ShapeLoop(ShapeStart, glyphs, base_size)
    IN  IF ~st.panic THEN PushRun(st, base_size) ELSE st

\* The loop and the closing of the last run.
ShapeRuns(glyphs, base_size) ==
    LET st == ShapeLoop(ShapeStart, glyphs, base_size)
    IN  IF ~st.panic /\ Len(st.current_run) > 0 THEN PushRun(st, base_size)
        ELSE st

\* The result of shape on font cache fc: the font cache afterwards, whether
\* the call panicked, the value returned and the calls made.
Shape(fc, src, eng, text, font_name, base_size, scale, bold, italic) ==
    LET font_key == FontKey(font_name, base_size, scale, bold, italic)
        got == GetFont(fc, src, font_key)
        style == TextStyle(base_size, scale)
        glyphs == Layout(eng, style, got.ret, text)
        runs == ShapeRuns(glyphs, base_size)
    IN  IF got.panic
        THEN [font_cache |-> got.font_cache, panic |-> TRUE, ret |-> <<>>,
              lookups |-> got.lookups, font_hit |-> HitOrMiss(got.hit),
              layout_calls |-> 0, glyphs |-> <<>>, blob_calls |-> <<>>,
              collection |-> <<>>]
        ELSE [font_cache |-> got.font_cache, panic |-> runs.panic,
              ret |-> IF runs.panic THEN <<>> ELSE runs.blobs,
              lookups |-> got.lookups, font_hit |-> HitOrMiss(got.hit),
              layout_calls |-> 1, glyphs |-> glyphs,
              blob_calls |-> runs.blob_calls, collection |-> got.ret]

---------------------------------------------------------------------------
(* The public methods.                                                     *)

\* The state after a call of shape of result sh, and the record of the call.
ShapeReturns(sh, text, font_key) ==
    /\ font_cache' = sh.font_cache
    /\ panicked' = sh.panic
    /\ call' = [NoCall EXCEPT
                  !.op = "shape", !.text = text, !.font_key = font_key,
                  !.panic = sh.panic, !.ret = sh.ret, !.shape_calls = 1,
                  !.layout_calls = sh.layout_calls,
                  !.blob_calls = sh.blob_calls, !.lookups = sh.lookups,
                  !.font_hit = sh.font_hit, !.glyphs = sh.glyphs,
                  !.collection = sh.collection,
                  !.follows = Follows(call, "shape", text, font_key)]
    /\ UNCHANGED <<blob_cache, source, engine>>

\* pub fn shape
ShapeCall(text, font_name, base_size, scale, bold, italic) ==
    /\ ~panicked
    /\ ShapeReturns(Shape(font_cache, source, engine, text, font_name,
                          base_size, scale, bold, italic),
                    text, FontKey(font_name, base_size, scale, bold, italic))

\* A faulty ShapeCached: what a failed shape left behind is put into the
\* cache under the key.
ShapeCachedStoresFailure(fc, bc, src, eng, text, font_name, base_size, scale, bold, italic) ==
    LET font_key == FontKey(font_name, base_size, scale, bold, italic)
        key == ShapeKey(text, font_key)
        hit == LruContains(bc, key)
        sh == Shape(fc, src, eng, text, font_name, base_size, scale, bold,
                    italic)
        put == IF hit THEN bc ELSE LruPut(bc, key, sh.ret, BlobCacheCapacity)
        got == LruPeek(put, key)
    IN  IF hit
        THEN [font_cache |-> fc, blob_cache |-> LruGet(bc, key),
              panic |-> FALSE, ret |-> got[1], shape_calls |-> 0,
              layout_calls |-> 0, blob_calls |-> <<>>, lookups |-> <<>>,
              font_hit |-> "none", blob_hit |-> "hit", glyphs |-> <<>>,
              collection |-> <<>>]
        ELSE [font_cache |-> sh.font_cache, blob_cache |-> LruGet(put, key),
              panic |-> sh.panic,
              ret |-> IF sh.panic THEN <<>> ELSE got[1],
              shape_calls |-> 1, layout_calls |-> sh.layout_calls,
              blob_calls |-> sh.blob_calls, lookups |-> sh.lookups,
              font_hit |-> sh.font_hit, blob_hit |-> "miss",
              glyphs |-> sh.glyphs, collection |-> sh.collection]

\* A faulty ShapeCached: the font of the key is resolved through get_font
\* on a hit as well.
ShapeCachedHitResolves(fc, bc, src, eng, text, font_name, base_size, scale, bold, italic) ==
    LET font_key == FontKey(font_name, base_size, scale, bold, italic)
        key == ShapeKey(text, font_key)
        hit == LruContains(bc, key)
        sh == Shape(fc, src, eng, text, font_name, base_size, scale, bold,
                    italic)
        put == IF hit THEN bc ELSE LruPut(bc, key, sh.ret, BlobCacheCapacity)
        got == LruPeek(put, key)
    IN  IF hit
        THEN [font_cache |-> GetFont(fc, src, font_key).font_cache,
              blob_cache |-> LruGet(bc, key),
              panic |-> FALSE, ret |-> got[1], shape_calls |-> 0,
              layout_calls |-> 0, blob_calls |-> <<>>, lookups |-> <<>>,
              font_hit |-> "none", blob_hit |-> "hit", glyphs |-> <<>>,
              collection |-> <<>>]
        ELSE IF sh.panic
        THEN [font_cache |-> sh.font_cache, blob_cache |-> bc,
              panic |-> TRUE, ret |-> <<>>, shape_calls |-> 1,
              layout_calls |-> sh.layout_calls,
              blob_calls |-> sh.blob_calls, lookups |-> sh.lookups,
              font_hit |-> sh.font_hit, blob_hit |-> "miss",
              glyphs |-> sh.glyphs, collection |-> sh.collection]
        ELSE [font_cache |-> sh.font_cache, blob_cache |-> LruGet(put, key),
              panic |-> FALSE, ret |-> got[1],
              shape_calls |-> 1, layout_calls |-> sh.layout_calls,
              blob_calls |-> sh.blob_calls, lookups |-> sh.lookups,
              font_hit |-> sh.font_hit, blob_hit |-> "miss",
              glyphs |-> sh.glyphs, collection |-> sh.collection]

\* The result of shape_cached on the two caches: the caches afterwards,
\* whether the call panicked, the value returned and the calls made.
ShapeCached(fc, bc, src, eng, text, font_name, base_size, scale, bold, italic) ==
    LET font_key == FontKey(font_name, base_size, scale, bold, italic)
        key == ShapeKey(text, font_key)
        hit == LruContains(bc, key)
        sh == Shape(fc, src, eng, text, font_name, base_size, scale, bold,
                    italic)
        put == IF hit THEN bc ELSE LruPut(bc, key, sh.ret, BlobCacheCapacity)
        got == LruPeek(put, key)
    IN  IF hit
        THEN [font_cache |-> fc, blob_cache |-> LruGet(bc, key),
              panic |-> FALSE, ret |-> got[1], shape_calls |-> 0,
              layout_calls |-> 0, blob_calls |-> <<>>, lookups |-> <<>>,
              font_hit |-> "none", blob_hit |-> "hit", glyphs |-> <<>>,
              collection |-> <<>>]
        ELSE IF sh.panic
        THEN [font_cache |-> sh.font_cache, blob_cache |-> bc,
              panic |-> TRUE, ret |-> <<>>, shape_calls |-> 1,
              layout_calls |-> sh.layout_calls,
              blob_calls |-> sh.blob_calls, lookups |-> sh.lookups,
              font_hit |-> sh.font_hit, blob_hit |-> "miss",
              glyphs |-> sh.glyphs, collection |-> sh.collection]
        ELSE [font_cache |-> sh.font_cache, blob_cache |-> LruGet(put, key),
              panic |-> got = None,
              ret |-> IF got = None THEN <<>> ELSE got[1],
              shape_calls |-> 1, layout_calls |-> sh.layout_calls,
              blob_calls |-> sh.blob_calls, lookups |-> sh.lookups,
              font_hit |-> sh.font_hit, blob_hit |-> "miss",
              glyphs |-> sh.glyphs, collection |-> sh.collection]

\* The state after a call of shape_cached of result r, and the record of
\* the call.
ShapeCachedReturns(r, text, font_key) ==
    /\ font_cache' = r.font_cache
    /\ blob_cache' = r.blob_cache
    /\ panicked' = r.panic
    /\ call' = [NoCall EXCEPT
                  !.op = "shape_cached", !.text = text, !.font_key = font_key,
                  !.panic = r.panic, !.ret = r.ret,
                  !.shape_calls = r.shape_calls,
                  !.layout_calls = r.layout_calls,
                  !.blob_calls = r.blob_calls, !.lookups = r.lookups,
                  !.font_hit = r.font_hit, !.blob_hit = r.blob_hit,
                  !.glyphs = r.glyphs, !.collection = r.collection,
                  !.follows = Follows(call, "shape_cached", text, font_key)]
    /\ UNCHANGED <<source, engine>>

\* pub fn shape_cached
ShapeCachedCall(text, font_name, base_size, scale, bold, italic) ==
    /\ ~panicked
    /\ ShapeCachedReturns(ShapeCached(font_cache, blob_cache, source, engine,
                                      text, font_name, base_size, scale, bold,
                                      italic),
                          text,
                          FontKey(font_name, base_size, scale, bold, italic))

\* A faulty Clear: only the font cache is cleared.
ClearFontCacheOnly ==
    /\ ~panicked
    /\ font_cache' = <<>>
    /\ call' = [NoCall EXCEPT !.op = "clear", !.follows = "other",
                               !.dropped = LruKeys(blob_cache)]
    /\ UNCHANGED <<blob_cache, source, engine, panicked>>

\* pub fn clear
Clear ==
    /\ ~panicked
    /\ font_cache' = <<>>
    /\ blob_cache' = <<>>
    /\ call' = [NoCall EXCEPT !.op = "clear", !.follows = "other",
                               !.dropped = LruKeys(blob_cache)]
    /\ UNCHANGED <<source, engine, panicked>>

\* glyph_offsets.windows(2).map(|pair| pair[1] - pair[0])
Advances(glyph_offsets) ==
    [i \in 1..(IF Len(glyph_offsets) = 0 THEN 0 ELSE Len(glyph_offsets) - 1) |->
        F32Sub(glyph_offsets[i + 1], glyph_offsets[i])]

\* The HashMap amounts after the loop: the text of an advance -> how many
\* of the advances have that text.
Amounts(glyph_advances) ==
    [s \in {F32ToString(glyph_advances[i]) : i \in 1..Len(glyph_advances)} |->
        Cardinality({i \in 1..Len(glyph_advances) :
                        F32ToString(glyph_advances[i]) = s})]

\* A faulty MaxByCount: min_by_key, the keys of the least count.
MinByCount(amounts) ==
    {s \in DOMAIN amounts : \A t \in DOMAIN amounts : amounts[s] <= amounts[t]}

\* amounts.into_iter().max_by_key(|(_, count)| count.clone()): the last of
\* the entries of the greatest count, in the order the HashMap iterates,
\* which is any order: each key of the greatest count can be the one.
MaxByCount(amounts) ==
    {s \in DOMAIN amounts : \A t \in DOMAIN amounts : amounts[t] <= amounts[s]}

\* A faulty FontBaseDimensions: the font is resolved under the key of the
\* bold style.
FontBaseDimensionsBoldKey(fc, src, eng, font_lookup) ==
    LET font_height == F32Sub(font_lookup.metrics.descent,
                              font_lookup.metrics.ascent)
        font_key == FontKey(font_lookup.name, font_lookup.base_size, 1,
                            TRUE, FALSE)
        got == GetFont(fc, src, font_key)
        style == [size |-> font_lookup.base_size]
        glyphs == LayoutRun(eng, style, got.ret, standard_character_string)
        glyph_offsets == [i \in 1..Len(glyphs) |-> glyphs[i].offset]
        widths == MaxByCount(Amounts(Advances(glyph_offsets)))
    IN  IF got.panic
        THEN [font_cache |-> got.font_cache, panic |-> TRUE, widths |-> {},
              font_height |-> font_height, lookups |-> got.lookups,
              font_hit |-> HitOrMiss(got.hit), layout_calls |-> 0,
              glyphs |-> <<>>, collection |-> <<>>]
        ELSE [font_cache |-> got.font_cache, panic |-> widths = {},
              widths |-> widths, font_height |-> font_height,
              lookups |-> got.lookups, font_hit |-> HitOrMiss(got.hit),
              layout_calls |-> 1, glyphs |-> glyphs, collection |-> got.ret]

\* The result of font_base_dimensions up to the choice of the width: the
\* font cache afterwards, whether the call panicked, the texts the width is
\* chosen among, the height and the calls made.
FontBaseDimensions(fc, src, eng, font_lookup) ==
    LET font_height == F32Sub(font_lookup.metrics.descent,
                              font_lookup.metrics.ascent)
        font_key == FontKey(font_lookup.name, font_lookup.base_size, 1,
                            FALSE, FALSE)
        got == GetFont(fc, src, font_key)
        style == [size |-> font_lookup.base_size]
        glyphs == LayoutRun(eng, style, got.ret, standard_character_string)
        glyph_offsets == [i \in 1..Len(glyphs) |-> glyphs[i].offset]
        glyph_advances == Advances(glyph_offsets)
        widths == MaxByCount(Amounts(glyph_advances))
    IN  IF got.panic
        THEN [font_cache |-> got.font_cache, panic |-> TRUE, widths |-> {},
              font_height |-> font_height, lookups |-> got.lookups,
              font_hit |-> HitOrMiss(got.hit), layout_calls |-> 0,
              glyphs |-> <<>>, collection |-> <<>>]
        ELSE [font_cache |-> got.font_cache, panic |-> widths = {},
              widths |-> widths, font_height |-> font_height,
              lookups |-> got.lookups, font_hit |-> HitOrMiss(got.hit),
              layout_calls |-> 1, glyphs |-> glyphs, collection |-> got.ret]

\* The state after a call of font_base_dimensions of result r, and the
\* record of the call: the width is the number that one of r.widths reads as.
FontBaseDimensionsReturns(r, font_key) ==
    /\ font_cache' = r.font_cache
    /\ panicked' = r.panic
    /\ \E ret \in IF r.panic THEN {<<>>}
                 ELSE {<<F32Parse(font_width), r.font_height>> :
                          font_width \in r.widths} :
          call' = [NoCall EXCEPT
                     !.op = "font_base_dimensions", !.font_key = font_key,
                     !.panic = r.panic, !.ret = ret,
                     !.layout_calls = r.layout_calls, !.lookups = r.lookups,
                     !.font_hit = r.font_hit, !.glyphs = r.glyphs,
                     !.collection = r.collection,
                     !.follows = Follows(call, "font_base_dimensions", <<>>,
                                         font_key)]
    /\ UNCHANGED <<blob_cache, source, engine>>

\* pub fn font_base_dimensions
FontBaseDimensionsCall(font_lookup) ==
    /\ ~panicked
    /\ FontBaseDimensionsReturns(
          FontBaseDimensions(font_cache, source, engine, font_lookup),
          FontKey(font_lookup.name, font_lookup.base_size, 1, FALSE, FALSE))

---------------------------------------------------------------------------
(* The calls the environment makes, and the fonts of the host.             *)

FiraCode == "Fira Code"

MissingFont == "No Such Font"

Families == {EmojiFamily, FiraCode, MissingFont}

\* What select_family_by_name(..) and load() answer for a family.
Answers == {"ok", "NotFound", "LoadError"}

\* The font attributes of a request.
Plain ==
    [font_name |-> FiraCode, base_size |-> F32(FALSE, 48), scale |-> 1,
     bold |-> FALSE, italic |-> FALSE]

Bold == [Plain EXCEPT !.bold = TRUE]

Big == [Plain EXCEPT !.base_size = F32(FALSE, 50), !.scale = 2, !.italic = TRUE]

Missing == [Plain EXCEPT !.font_name = MissingFont]

Request(text, attrs) == [text |-> text, attrs |-> attrs]

\* The (text, font attributes) pairs the renderer asks for in Spec.
Requests ==
    {Request(<<>>, Plain), Request(<<"a", EmojiChar, "b">>, Plain),
     Request(<<"a", "b">>, Bold), Request(<<"a">>, Big),
     Request(<<"a">>, Missing)}

\* The FontLookup handed to font_base_dimensions: the name, the base size
\* and the metrics of its normal font at size 1.
FontLookups ==
    {[name |-> FiraCode, base_size |-> F32(FALSE, 48),
      metrics |-> [ascent |-> F32(TRUE, 36), descent |-> F32(FALSE, 12)]]}

KeyOf(attrs) ==
    FontKey(attrs.font_name, attrs.base_size, attrs.scale, attrs.bold,
            attrs.italic)

ShapeKeyOf(req) == ShapeKey(req.text, KeyOf(req.attrs))

---------------------------------------------------------------------------
(* Spec: the two caches under the calls of the renderer.                   *)

Sources ==
    {src \in [Families -> Answers] :
        src[FiraCode] = "ok" /\ src[MissingFont] # "ok"}

\* What shape_cached stored for a request shaped earlier in the session.
Shaped(req) ==
    Shape(<<>>, [f \in Families |-> "ok"], Stub, req.text,
          req.attrs.font_name, req.attrs.base_size, req.attrs.scale,
          req.attrs.bold, req.attrs.italic).ret

\* The state after CachingShaper::new().
InitNew ==
    /\ font_cache = <<>>
    /\ blob_cache = <<>>
    /\ source \in Sources

\* A state later in a session: both caches are full, and all but two keys
\* of each are keys the calls of the model do not name again.
InitFull ==
    /\ font_cache = <<Entry(KeyOf(Plain), <<EmojiFamily, FiraCode>>),
                      Entry(KeyOf(Bold), <<EmojiFamily, FiraCode>>),
                      Others(FontCacheCapacity - 2)>>
    /\ blob_cache =
         <<Entry(ShapeKeyOf(Request(<<>>, Plain)),
                 Shaped(Request(<<>>, Plain))),
           Entry(ShapeKeyOf(Request(<<"a", "b">>, Bold)),
                 Shaped(Request(<<"a", "b">>, Bold))),
           Others(BlobCacheCapacity - 2)>>
    /\ source \in {src \in Sources : src[EmojiFamily] = "ok"}

Init ==
    /\ InitNew \/ InitFull
    /\ engine = Stub
    /\ panicked = FALSE
    /\ call = NoCall

Next ==
    \/ \E req \in Requests :
          ShapeCall(req.text, req.attrs.font_name, req.attrs.base_size,
                    req.attrs.scale, req.attrs.bold, req.attrs.italic)
    \/ \E req \in Requests :
          ShapeCachedCall(req.text, req.attrs.font_name, req.attrs.base_size,
                          req.attrs.scale, req.attrs.bold, req.attrs.italic)
    \/ Clear
    \/ \E font_lookup \in FontLookups : FontBaseDimensionsCall(font_lookup)

Spec == Init /\ [][Next]_vars

---------------------------------------------------------------------------
(* SpecShape: shape and shape_cached on every glyph sequence of at most    *)
(* MaxGlyphs glyphs the layout engine can answer, each glyph of one of the *)
(* two fonts of the collection.                                            *)

GlyphSeqs ==
    {[i \in 1..Len(fonts) |-> Glyph(i, fonts[i], F32(FALSE, 24 * (i - 1)))] :
        fonts \in UNION {[1..n -> {EmojiFamily, FiraCode}] : n \in 0..MaxGlyphs}}

InitShape ==
    /\ font_cache = <<>>
    /\ blob_cache = <<>>
    /\ source = [f \in Families |-> IF f = MissingFont THEN "NotFound" ELSE "ok"]
    /\ engine \in {Answering(glyphs) : glyphs \in GlyphSeqs}
    /\ panicked = FALSE
    /\ call = NoCall

\* The empty text is asked for when the engine answers no glyph.
ShapeRequests ==
    {Request(<<"a", "b">>, Plain)}
        \cup (IF engine.glyphs = <<>> THEN {Request(<<>>, Plain)} ELSE {})

NextShape ==
    \/ \E req \in ShapeRequests :
          ShapeCall(req.text, req.attrs.font_name, req.attrs.base_size,
                    req.attrs.scale, req.attrs.bold, req.attrs.italic)
    \/ \E req \in ShapeRequests :
          ShapeCachedCall(req.text, req.attrs.font_name, req.attrs.base_size,
                          req.attrs.scale, req.attrs.bold, req.attrs.italic)

SpecShape == InitShape /\ [][NextShape]_vars

---------------------------------------------------------------------------
(* SpecDims: font_base_dimensions on every reference layout of at most     *)
(* MaxAdvances + 1 glyphs whose advances are among AdvanceValues.          *)

\* 5, 6, 7 and -0.75
AdvanceValues == {F32(FALSE, 20), F32(FALSE, 24), F32(FALSE, 28), F32(TRUE, 3)}

AdvanceSeqs == UNION {[1..n -> AdvanceValues] : n \in 0..MaxAdvances}

RECURSIVE OffsetAt(_, _)
OffsetAt(advances, i) ==
    IF i = 1 THEN 0 ELSE OffsetAt(advances, i - 1) + F32ToInt(advances[i - 1])

\* The glyphs of a layout that starts at 0 and has the advances given.
GlyphsOf(advances) ==
    [i \in 1..(Len(advances) + 1) |->
        Glyph(i, FiraCode, F32FromInt(OffsetAt(advances, i)))]

InitDims ==
    /\ font_cache = <<>>
    /\ blob_cache = <<>>
    /\ source = [f \in Families |-> IF f = MissingFont THEN "NotFound" ELSE "ok"]
    /\ engine \in {Answering(<<>>)}
                    \cup {Answering(GlyphsOf(advances)) : advances \in AdvanceSeqs}
    /\ panicked = FALSE
    /\ call = NoCall

NextDims == \E font_lookup \in FontLookups : FontBaseDimensionsCall(font_lookup)

SpecDims == InitDims /\ [][NextDims]_vars

---------------------------------------------------------------------------
(* SpecKeys: shape_cached under font keys that differ in the size only,    *)
(* the sizes 0.0 and -0.0 among them.                                      *)

\* The f32 values handed in as base_size: 12.0 (which the literal 12.00
\* denotes as well), 12.5, 0.0 and -0.0.
KeySizes == {F32(FALSE, 48), F32(FALSE, 50), F32(FALSE, 0), F32(TRUE, 0)}

KeyRequests ==
    {Request(<<"a">>, [Plain EXCEPT !.base_size = base_size]) :
        base_size \in KeySizes}

InitKeys ==
    /\ font_cache = <<>>
    /\ blob_cache = <<>>
    /\ source = [f \in Families |-> IF f = MissingFont THEN "NotFound" ELSE "ok"]
    /\ engine = Stub
    /\ panicked = FALSE
    /\ call = NoCall

NextKeys ==
    \E req \in KeyRequests :
        ShapeCachedCall(req.text, req.attrs.font_name, req.attrs.base_size,
                        req.attrs.scale, req.attrs.bold, req.attrs.italic)

SpecKeys == InitKeys /\ [][NextKeys]_vars

---------------------------------------------------------------------------
(* The claims.                                                             *)

Shaping == {"shape", "shape_cached"}

\* C1: of two consecutive shape_cached(T, I) calls with no clear() between
\* them, the second returns a value equal to the first's and makes no call
\* of shape, and so none of the layout engine.
C1_SecondCallIsAHit ==
    [][(/\ call.op = "shape_cached" /\ ~call.panic
        /\ call'.op = "shape_cached"
        /\ call'.text = call.text /\ call'.font_key = call.font_key)
       => (/\ ~call'.panic
           /\ call'.ret = call.ret
           /\ call'.shape_calls = 0
           /\ call'.layout_calls = 0)]_vars

\* A shape_cached call repeats the call before it and returns its runs.
C1_Witness ==
    /\ call.op = "shape_cached" /\ call.follows = "same"
    /\ call.blob_hit = "hit" /\ Len(call.ret) = 3

\* What an access to key k, which makes cache c into c2, must do in a cache
\* of capacity cap: k is the most recently used entry of c2; when k is new
\* and c holds cap entries, c2 holds cap entries and lacks exactly the entry
\* at the least recently used end of c; all other entries keep their order.
LruAccess(c, c2, k, cap) ==
    LET new == \A i \in 1..Len(c) : c[i].fill \/ c[i].key # k
        full == LruLen(c) = cap
        oldest_out ==
            IF Head(c).n > 1
            THEN <<[Head(c) EXCEPT !.n = @ - 1]>> \o SubSeq(c, 2, Len(c))
            ELSE SubSeq(c, 2, Len(c))
        kept == IF new /\ full THEN oldest_out ELSE c
        others(d) == SelectSeq(d, LAMBDA it : it.fill \/ it.key # k)
    IN  /\ c2 # <<>>
        /\ ~c2[Len(c2)].fill /\ c2[Len(c2)].key = k
        /\ others(c2) = others(kept)
        /\ Len(c2) = Len(others(c2)) + 1
        /\ LruLen(c2) = IF new /\ ~full THEN LruLen(c) + 1 ELSE LruLen(c)

\* C2: in the font cache and in the shape cache, a new key put into a full
\* cache evicts exactly one entry, the least recently used one, and every
\* access through get_font or shape_cached, hit or miss, makes the key the
\* most recently used.
C2_LruEviction ==
    [][(/\ call'.op \in Shaping \cup {"font_base_dimensions"}
        /\ ~call'.panic)
       => (/\ call'.font_hit # "none"
              => LruAccess(font_cache, font_cache', call'.font_key,
                           FontCacheCapacity)
           /\ call'.op = "shape_cached"
              => LruAccess(blob_cache, blob_cache',
                           ShapeKey(call'.text, call'.font_key),
                           BlobCacheCapacity))]_vars

\* Both caches were full with Plain's keys the least recently used; those
\* were accessed again, and the new keys of Big then evicted Bold's.
C2_Witness ==
    /\ call.op = "shape_cached" /\ call.font_key = KeyOf(Big)
    /\ call.font_hit = "miss" /\ call.blob_hit = "miss"
    /\ LruLen(font_cache) = FontCacheCapacity
    /\ LruKeys(font_cache) = {KeyOf(Plain), KeyOf(Big)}
    /\ LruLen(blob_cache) = BlobCacheCapacity
    /\ LruKeys(blob_cache) = {ShapeKeyOf(Request(<<>>, Plain)),
                              ShapeKeyOf(Request(<<"a">>, Big))}

\* C3: after clear() both caches are empty, and the next shape_cached(T, I)
\* of a pair that was cached before the clear is a miss that calls shape.
C3_ClearEmptiesBothCaches ==
    [][/\ call'.op = "clear" => (font_cache' = <<>> /\ blob_cache' = <<>>)
       /\ (/\ call.op = "clear" /\ call'.op = "shape_cached"
           /\ ShapeKey(call'.text, call'.font_key) \in call.dropped)
          => (call'.blob_hit = "miss" /\ call'.shape_calls = 1)]_vars

\* A pair cached before a clear() is shaped again right after it.
C3_Witness ==
    /\ call.op = "shape_cached" /\ call.follows = "cleared"
    /\ call.shape_calls = 1 /\ call.layout_calls = 1 /\ ~call.panic

\* The fonts of a glyph sequence.
FontsOf(glyphs) == [i \in 1..Len(glyphs) |-> glyphs[i].font]

\* A call of shape that got the layout engine's answer.
Shaped1 == call.op \in Shaping /\ call.layout_calls = 1 /\ ~call.panic

\* C4: the runs shape produces are maximal same-font runs: the glyphs of a
\* run all have the font name that labels the run, and adjacent runs have
\* different labels; fonts [A,A,B,B,B,A] give 3 runs of lengths [2,3,1]
\* labelled [A,B,A].
C4_MaximalSameFontRuns ==
    Shaped1 =>
        /\ Len(call.blob_calls) = Len(call.ret)
        /\ \A r \in 1..Len(call.ret) :
              /\ call.ret[r][2].glyph_ids
                    = [i \in 1..Len(call.blob_calls[r]) |->
                          call.blob_calls[r][i].glyph_id]
              /\ \A i \in 1..Len(call.blob_calls[r]) :
                    call.blob_calls[r][i].font = call.ret[r][1]
        /\ \A r \in 1..(Len(call.ret) - 1) : call.ret[r][1] # call.ret[r + 1][1]
        /\ FontsOf(call.glyphs)
              = <<FiraCode, FiraCode, EmojiFamily, EmojiFamily, EmojiFamily,
                  FiraCode>>
           => /\ [r \in 1..Len(call.ret) |-> Len(call.ret[r][2].glyph_ids)]
                    = <<2, 3, 1>>
              /\ [r \in 1..Len(call.ret) |-> call.ret[r][1]]
                    = <<FiraCode, EmojiFamily, FiraCode>>

\* shape has segmented a layout of fonts [A,A,B,B,B,A].
C4_Witness ==
    /\ Shaped1 /\ call.op = "shape"
    /\ FontsOf(call.glyphs)
          = <<FiraCode, FiraCode, EmojiFamily, EmojiFamily, EmojiFamily,
              FiraCode>>
    /\ Len(call.ret) = 3

RECURSIVE Concat(_)
Concat(seqs) == IF seqs = <<>> THEN <<>> ELSE Head(seqs) \o Concat(Tail(seqs))

\* C5: the runs in output order, concatenated, are the glyph sequence of the
\* layout: no glyph is dropped, duplicated or moved, the last run included.
C5_RunsCoverTheLayout ==
    Shaped1 =>
        /\ Concat([r \in 1..Len(call.ret) |-> call.ret[r][2].glyph_ids])
              = [i \in 1..Len(call.glyphs) |-> call.glyphs[i].glyph_id]
        /\ Concat([r \in 1..Len(call.ret) |-> call.ret[r][2].positions])
              = [i \in 1..Len(call.glyphs) |-> call.glyphs[i].offset]

\* shape has segmented a layout of MaxGlyphs glyphs that ends in a run of
\* one glyph.
C5_Witness ==
    /\ Shaped1 /\ Len(call.glyphs) = MaxGlyphs /\ Len(call.ret) > 1
    /\ Len(call.ret[Len(call.ret)][2].glyph_ids) = 1

\* C6: when the layout engine returns no glyphs, shape and shape_cached
\* return an empty result and no error, and no drawable batch is built.
C6_EmptyLayoutGivesEmptyResult ==
    /\ (call.op \in Shaping /\ call.layout_calls = 1 /\ call.glyphs = <<>>)
          => (~call.panic /\ call.ret = <<>> /\ call.blob_calls = <<>>)
    /\ (call.op = "shape_cached" /\ call.blob_hit = "hit"
        /\ engine.glyphs = <<>>)
          => (~call.panic /\ call.ret = <<>> /\ call.blob_calls = <<>>)

\* shape_cached("", I) has got no glyphs from the layout engine.
C6_Witness ==
    /\ call.op = "shape_cached" /\ call.text = <<>> /\ call.layout_calls = 1
    /\ call.glyphs = <<>> /\ call.ret = <<>> /\ ~panicked

\* A call that went to the font source for the families of its font key.
Resolved == call.op # "new" /\ call.op # "clear" /\ call.font_hit = "miss"

\* C7: when the requested family cannot be located or loaded, the request
\* returns an error value to its caller and does not abort.
C7_PrimaryFailureIsReturned ==
    (/\ Resolved
     /\ source[EmojiFamily] = "ok"
     /\ source[call.font_key.name] # "ok")
        => ~panicked

\* C8: when the emoji family cannot be located or loaded and the requested
\* family can, the resolution goes on and yields a collection that holds
\* the requested family.
C8_EmojiFailureDegrades ==
    (/\ Resolved
     /\ source[EmojiFamily] # "ok"
     /\ source[call.font_key.name] = "ok")
        => (/\ ~panicked
            /\ LruContains(font_cache, call.font_key)
            /\ \E i \in 1..Len(LruPeek(font_cache, call.font_key)[1]) :
                  LruPeek(font_cache, call.font_key)[1][i] = call.font_key.name)

\* The advances of a glyph sequence, as numbers (in quarters).
AdvancesOf(glyphs) ==
    [i \in 1..(Len(glyphs) - 1) |->
        F32ToInt(glyphs[i + 1].offset) - F32ToInt(glyphs[i].offset)]

Count(seq, v) == Cardinality({i \in 1..Len(seq) : seq[i] = v})

\* C9: for a reference layout of at least 2 glyphs, the width returned is
\* one of the advances and no advance occurs more often; advances
\* [5,5,5,7,5,6] give width 5.
C9_WidthIsAMode ==
    (/\ call.op = "font_base_dimensions" /\ call.layout_calls = 1
     /\ Len(call.glyphs) >= 2)
        => LET advances == AdvancesOf(call.glyphs)
               width == F32ToInt(call.ret[1])
           IN  /\ ~call.panic
               /\ Count(advances, width) > 0
               /\ \A i \in 1..Len(advances) :
                     Count(advances, advances[i]) <= Count(advances, width)
               /\ advances = <<20, 20, 20, 28, 20, 24>> => call.ret[1] = F32(FALSE, 20)

\* font_base_dimensions has returned for the advances [5,5,5,7,5,6].
C9_Witness ==
    /\ call.op = "font_base_dimensions" /\ ~call.panic
    /\ Len(call.glyphs) = 7
    /\ AdvancesOf(call.glyphs) = <<20, 20, 20, 28, 20, 24>>
    /\ call.ret[1] = F32(FALSE, 20)

\* C10: when the reference string shapes to fewer than 2 glyphs, the
\* estimator reports an error value the caller can handle and does not
\* crash.
C10_TooFewGlyphsIsReturned ==
    (/\ call.op = "font_base_dimensions" /\ call.layout_calls = 1
     /\ Len(call.glyphs) < 2)
        => ~panicked

\* C11: in every reachable state, every collection stored in the font cache
\* under a key K holds its families in the order [emoji fallback family,
\* family named K.name].
C11_FallbackFirst ==
    \A i \in 1..Len(font_cache) :
        ~font_cache[i].fill
            => font_cache[i].val = <<EmojiFamily, font_cache[i].key.name>>

\* get_font has built and stored the collection of a key that was new.
C11_Witness ==
    /\ call.op \in Shaping /\ call.font_hit = "miss" /\ ~call.panic
    /\ call.font_key = KeyOf(Big)
    /\ LruPeek(font_cache, KeyOf(Big)) = Some(<<EmojiFamily, FiraCode>>)

\* a == b on f32 values: -0.0 and 0.0 are equal.
F32Eq(a, b) == F32ToInt(a) = F32ToInt(b)

\* The size a font key was built with: its text read back as a number.
SizeOf(font_key) == F32Parse(font_key.base_size)

\* C12: two font keys built with the same family, scale, bold and italic
\* and with numerically equal sizes are equal, so that the second of two
\* consecutive shape_cached calls of one text under such keys hits the
\* entry the first one made.
C12_EqualSizesGiveEqualKeys ==
    [][(/\ call.op = "shape_cached" /\ ~call.panic
        /\ call'.op = "shape_cached"
        /\ call'.text = call.text
        /\ call'.font_key.name = call.font_key.name
        /\ call'.font_key.scale = call.font_key.scale
        /\ call'.font_key.bold = call.font_key.bold
        /\ call'.font_key.italic = call.font_key.italic
        /\ F32Eq(SizeOf(call'.font_key), SizeOf(call.font_key)))
       => (/\ call'.font_key = call.font_key
           /\ call'.blob_hit = "hit")]_vars

\* C13: in every reachable state, after any sequence of shape, shape_cached,
\* font_base_dimensions and clear calls, the font cache holds at most 100
\* entries and the shape cache at most 10,000.
C13_CachesStayWithinCapacity ==
    /\ LruLen(font_cache) <= 100
    /\ LruLen(blob_cache) <= 10000

\* A new key of each cache has been put into the cache when it was full.
C13_Witness ==
    /\ call.op = "shape_cached" /\ ~call.panic
    /\ call.font_hit = "miss" /\ call.blob_hit = "miss"
    /\ LruContains(font_cache, call.font_key)
    /\ LruContains(blob_cache, ShapeKey(call.text, call.font_key))
    /\ LruLen(font_cache) = 100
    /\ LruLen(blob_cache) = 10000

\* C14: every call of make_blob made by shape receives a run of at least
\* one glyph, for every glyph sequence of the layout, the empty one
\* included: make_blob never reads the first glyph of an empty run.
C14_MakeBlobGetsAGlyph ==
    call.op \in Shaping =>
        /\ \A r \in 1..Len(call.blob_calls) :
              /\ Len(call.blob_calls[r]) >= 1
              /\ ~MakeBlobPanics(call.blob_calls[r])
        /\ call.layout_calls = 1 => ~call.panic

\* shape has called make_blob once for each glyph of a layout of MaxGlyphs
\* glyphs whose fonts alternate.
C14_Witness ==
    /\ call.op = "shape" /\ call.layout_calls = 1
    /\ Len(call.glyphs) = MaxGlyphs
    /\ Len(call.blob_calls) = MaxGlyphs
    /\ \A r \in 1..Len(call.blob_calls) : Len(call.blob_calls[r]) = 1

\* C15: a font resolution for a key that is in the font cache looks up and
\* loads nothing on the font source and returns the stored collection; the
\* font cache holds the same keys, with the same collections, before and
\* after.
C15_FontHitLoadsNothing ==
    [][call'.font_hit = "hit"
       => (/\ call'.lookups = <<>>
           /\ LruContains(font_cache, call'.font_key)
           /\ Some(call'.collection) = LruPeek(font_cache, call'.font_key)
           /\ LruKeys(font_cache') = LruKeys(font_cache)
           /\ LruLen(font_cache') = LruLen(font_cache)
           /\ \A k \in LruKeys(font_cache) :
                 LruPeek(font_cache', k) = LruPeek(font_cache, k))]_vars

\* shape has found its key in a font cache that holds another key as
\* well, and got the collection stored under it.
C15_Witness ==
    /\ call.op = "shape" /\ ~call.panic /\ call.font_hit = "hit"
    /\ call.lookups = <<>>
    /\ call.collection = <<EmojiFamily, FiraCode>>
    /\ Cardinality(LruKeys(font_cache)) >= 2

\* C16: after every font resolution that returned a collection for a key,
\* hit or miss, that key is the most recently used entry of the font cache.
C16_ResolvedKeyIsMostRecent ==
    (/\ call.op \in Shaping \cup {"font_base_dimensions"}
     /\ call.font_hit \in {"hit", "miss"}
     /\ call.layout_calls = 1)
        => /\ font_cache # <<>>
           /\ Holds(font_cache[Len(font_cache)], call.font_key)

\* A hit on the least recently used key of a full font cache has moved it
\* to the most recently used end.
C16_Witness ==
    /\ call.font_hit = "hit" /\ call.font_key = KeyOf(Plain) /\ ~call.panic
    /\ font_cache = <<Entry(KeyOf(Bold), <<EmojiFamily, FiraCode>>),
                      Others(FontCacheCapacity - 2),
                      Entry(KeyOf(Plain), <<EmojiFamily, FiraCode>>)>>

\* C17: when the shape call of a shape_cached(T, I) miss fails, no result
\* is returned or stored: the shape cache has no entry for (T, I)
\* afterwards and its earlier entries are as they were.
C17_FailedMissStoresNothing ==
    [][(/\ call'.op = "shape_cached" /\ call'.blob_hit = "miss"
        /\ call'.panic)
       => (/\ call'.ret = <<>>
           /\ ~LruContains(blob_cache', ShapeKey(call'.text, call'.font_key))
           /\ blob_cache' = blob_cache)]_vars

\* A shape_cached miss has failed on the load of its font, with a full
\* shape cache.
C17_Witness ==
    /\ call.op = "shape_cached" /\ call.blob_hit = "miss" /\ call.panic
    /\ call.shape_calls = 1
    /\ call.lookups = <<EmojiFamily, MissingFont>>
    /\ LruLen(blob_cache) = BlobCacheCapacity
    /\ ~LruContains(blob_cache, ShapeKey(call.text, call.font_key))

\* C18: a shape_cached call that hits the shape cache leaves the font
\* cache as it is, its entries and their recency order, and resolves no
\* font; a shape_cached call that misses resolves its font through the
\* font cache.  So the font cache can lack the key of a font whose shape
\* results are still in the shape cache.
C18_ShapeHitLeavesFontCache ==
    [][call'.op = "shape_cached"
       => (/\ call'.blob_hit = "hit"
              => (/\ font_cache' = font_cache
                  /\ call'.font_hit = "none"
                  /\ call'.lookups = <<>>)
           /\ call'.blob_hit = "miss"
              => (/\ call'.font_hit \in {"hit", "miss"}
                  /\ ~call'.panic
                     => Holds(font_cache'[Len(font_cache')],
                              call'.font_key)))]_vars

\* shape_cached has returned a result from the shape cache for a font key
\* that was evicted from the full font cache.
C18_Witness ==
    /\ call.op = "shape_cached" /\ call.blob_hit = "hit"
    /\ Len(call.ret) > 0
    /\ LruLen(font_cache) = FontCacheCapacity
    /\ ~LruContains(font_cache, call.font_key)
    /\ LruContains(blob_cache, ShapeKey(call.text, call.font_key))

\* C19: font_base_dimensions resolves its font through the font cache
\* under the key (font name, base size, scale 1, bold false, italic
\* false), which it inserts or makes the most recently used, and leaves
\* the shape cache as it is.
C19_EstimatorUsesFontCacheOnly ==
    [][call'.op = "font_base_dimensions"
       => (/\ blob_cache' = blob_cache
           /\ call'.blob_hit = "none"
           /\ \E font_lookup \in FontLookups :
                 LET k == [name |-> font_lookup.name,
                           base_size |-> F32ToString(font_lookup.base_size),
                           scale |-> 1, bold |-> FALSE, italic |-> FALSE]
                 IN  /\ call'.font_key = k
                     /\ call'.font_hit = HitOrMiss(LruContains(font_cache, k))
                     /\ ~call'.panic
                        => LruAccess(font_cache, font_cache', k,
                                     FontCacheCapacity))]_vars

\* font_base_dimensions has put its key back into a full font cache that
\* had lost it, next to a full shape cache.
C19_Witness ==
    /\ call.op = "font_base_dimensions" /\ ~call.panic
    /\ call.font_hit = "miss"
    /\ LruLen(font_cache) = FontCacheCapacity
    /\ Holds(font_cache[Len(font_cache)], KeyOf(Plain))
    /\ LruLen(blob_cache) = BlobCacheCapacity

\* C20: font_base_dimensions is deterministic: of two consecutive calls
\* that get the same glyphs from the layout engine, and so the same list
\* of advances, the second returns the width the first returned, also when
\* two or more distinct advances tie for the greatest count.
C20_SameAdvancesSameWidth ==
    [][(/\ call.op = "font_base_dimensions" /\ ~call.panic
        /\ call'.op = "font_base_dimensions" /\ ~call'.panic
        /\ AdvancesOf(call'.glyphs) = AdvancesOf(call.glyphs))
       => call'.ret[1] = call.ret[1]]_vars

===========================================================================
